---- MODULE Spec2Model ----
(***************************************************************************)
(* goswarm: a pool of gomote instances runs the same command in a loop     *)
(* until one of them fails (main.go), on top of the gomote wrapper         *)
(* package (gomote.Create/Push/Run/Get/List/Destroy/InstanceTypes).        *)
(*                                                                         *)
(* The model follows run() of main.go: the main goroutine validates the    *)
(* instance type, optionally cleans up, compiles the regexp, starts one    *)
(* errgroup goroutine ("session") per instance and waits.  Every gomote    *)
(* call and every file operation is a step whose outcome is chosen by the  *)
(* environment.  exec.CommandContext does not start a process whose        *)
(* context is already done, so a gomote call made with a done context      *)
(* fails without reaching the backend.                                     *)
(***************************************************************************)
EXTENDS Naturals, Integers, Sequences, FiniteSets, TLC

\* ------------------------------------------------------------------ bounds
\* Largest value of the -i flag explored.
MaxInstances == 2
\* Largest value of the -deflake flag explored.
MaxDeflakes == 2
\* Largest number of instances `gomote list` reports.
MaxListed == 3

\* ------------------------------------------------------- names and values
\* Names the backend gives to the instances created by sessions 1, 2, ...
InstNames == <<"w1", "w2", "w3", "w4">>
InstName(s) == InstNames[s]
\* Instances that may exist before the run: name and type.
PreInstances ==
    <<[Name |-> "p1", Type |-> "A"], [Name |-> "p2", Type |-> "B"],
      [Name |-> "p3", Type |-> "A"], [Name |-> "p4", Type |-> "B"]>>
\* flag.Arg(0), the requested instance type.
typ == "A"
\* What `gomote create` may list as valid types.
TypeListings == SUBSET {"A", "B"}
\* Values of the -match flag: none, a pattern, a pattern that does not compile.
MatchFlags == {"", "FATAL", "("}
cleanOff == "off"
cleanStart == "start"
cleanExit == "exit"

Sessions == 1..MaxInstances
\* Every duplicate-free listing of at most MaxListed instances.
Listings ==
    LET pool == {PreInstances[k] : k \in 1..MaxListed}
    IN  {l \in UNION {[1..n -> pool] : n \in 0..MaxListed} :
            \A a, b \in 1..Len(l) : a # b => l[a] # l[b]}

\* The result pair of gomote.Run: the combined output, as the set of the
\* tokens it contains, and the error: "nil", "exit" (*exec.ExitError) or
\* "other" (any other error).
NoResults == [out |-> {}, err |-> "nil"]
RunErrs == {"nil", "exit", "other"}
Outputs(name) == SUBSET {"FATAL", name}

\* <inst>.out: whether it was written, and with which output.
NoFile == [written |-> FALSE, data |-> {}]

\* An error value: the return statement that made it and the session it
\* names (0 for run() itself).
NilErr == [site |-> "nil", by |-> 0]
NoRet == [site |-> "none", by |-> 0]
MainErr(site) == [site |-> site, by |-> 0]

VARIABLES
    \* flags (main.go:25-33) and positional arguments
    instances, clean, deflakes, errMatch, keepGoing, nArg,
    \* run(): position, return value, locals
    mainPc, runRet, typs, insts, ci, errRegexp, launched,
    \* the signal context (os.Interrupt) and the process
    sigDone,
    \* errgroup.Group: first error, derived context cancelled
    egErr, egCancel,
    \* per session (the closure passed to eg.Go): position and locals
    pc, i, inst, err, results, ret,
    \* the file system: <inst>.out, <inst>.tar.gz, temp files
    outFile, tarFile, tmpFile,
    \* the backend: names gomote.Destroy was issued on at start-up, and the
    \* outcome of the destroy a session issued on exit
    destroyCalls, exitDestroy,
    \* history: the first session that returned a non-nil error, and whether
    \* a session found err != nil after gomote.Run with ctx not done
    firstFail, cmdFailed

cfgVars == <<instances, clean, deflakes, errMatch, keepGoing, nArg>>
mainVars == <<mainPc, runRet, typs, insts, ci, errRegexp, launched>>
egVars == <<egErr, egCancel, firstFail>>
histVars == <<cmdFailed>>
sessVars == <<pc, i, inst, err, results, ret>>
fileVars == <<outFile, tarFile, tmpFile>>
backVars == <<destroyCalls, exitDestroy>>
vars == <<cfgVars, mainVars, sigDone, egVars, sessVars, fileVars, backVars, histVars>>

Init ==
    /\ instances \in 0..MaxInstances
    /\ clean \in {cleanOff, cleanStart, cleanExit}
    /\ deflakes \in 0..MaxDeflakes
    /\ errMatch \in MatchFlags
    /\ keepGoing \in BOOLEAN
    /\ nArg \in 0..2
    /\ mainPc = "start"
    /\ runRet = NoRet
    /\ typs = {}
    /\ insts = <<>>
    /\ ci = 0
    /\ errRegexp = ""
    /\ launched = 0
    /\ sigDone = FALSE
    /\ egErr = NilErr
    /\ egCancel = FALSE
    /\ firstFail = 0
    /\ cmdFailed = FALSE
    /\ pc = [s \in Sessions |-> "idle"]
    /\ i = [s \in Sessions |-> 0]
    /\ inst = [s \in Sessions |-> ""]
    /\ err = [s \in Sessions |-> 0]
    /\ results = [s \in Sessions |-> NoResults]
    /\ ret = [s \in Sessions |-> "none"]
    /\ outFile = [s \in Sessions |-> NoFile]
    /\ tarFile = [s \in Sessions |-> "none"]
    /\ tmpFile = [s \in Sessions |-> FALSE]
    /\ destroyCalls = {}
    /\ exitDestroy = [s \in Sessions |-> "none"]

\* The process is running: no goroutine has panicked.
Alive == mainPc # "crashed"
\* ctx of run() before errgroup.WithContext: done on os.Interrupt.
SigCtxDone == sigDone
\* ctx derived by errgroup.WithContext: done when its parent is, when a
\* session returned a non-nil error, or when Wait returned.
CtxDone == sigDone \/ egCancel
\* ------------------------------------------------------------ run(), main
\* Return statements as they were before the deflake change: giving up on
\* create or push returned an error.
ErrOf_giveUpIsError(site) ==
    IF site \in {"nil", "cleanOnly", "ctxDone", "keepGoing"}
    THEN "nil"
    ELSE IF site = "errStop" THEN "errStop" ELSE "error"
\* Return statements that only log a failure to write <inst>.out or to
\* create or download <inst>.tar.gz.
ErrOf_artifactsLogged(site) ==
    IF site \in {"nil", "cleanOnly", "createFail", "pushFail", "ctxDone", "keepGoing",
                 "writeFail", "archiveFail", "downloadFail"}
    THEN "nil"
    ELSE IF site = "errStop" THEN "errStop" ELSE "error"
\* Return statements that stop on a matched failure whether or not the
\* archive was downloaded.
ErrOf_stopsWithoutArchive(site) ==
    IF site \in {"nil", "cleanOnly", "createFail", "pushFail", "ctxDone", "keepGoing"}
    THEN "nil"
    ELSE IF site \in {"errStop", "downloadFail"} THEN "errStop" ELSE "error"
\* Return statements that stop the fleet on a matched failure even under
\* -keep-going.
ErrOf_keepGoingStops(site) ==
    IF site \in {"nil", "cleanOnly", "createFail", "pushFail", "ctxDone"}
    THEN "nil"
    ELSE IF site \in {"errStop", "keepGoing"} THEN "errStop" ELSE "error"
\* The kind of value a return statement yields: nil, errStop or an error.
ErrOf(site) ==
    IF site \in {"nil", "cleanOnly", "createFail", "pushFail", "ctxDone", "keepGoing"}
    THEN "nil"
    ELSE IF site = "errStop" THEN "errStop" ELSE "error"

\* main(): the exit status for the value run() returned.
ExitCode(r) == IF ErrOf(r.site) = "error" THEN 1 ELSE 0

\* run() returns r.
Returns(r) ==
    /\ mainPc' = "returned"
    /\ runRet' = r

\* A compile that accepts every pattern.
Compiles_always(p) == p = p
\* regexp.Compile succeeds on the pattern.
Compiles(p) == p # "("
\* (*Regexp).Match on the output.
Match(re, out) == re \in out
\* bytes.Contains(results, []byte(inst)).
Contains(out, name) == name \in out

\* A validation that accepts any non-empty listing.
TypeValid_anyListed(listed) == listed # {}
\* validateInstanceType: the loop over the listed types.
TypeValid(listed) == typ \in listed

\* A clean-up without the type filter.
ShouldDestroy_all(it) == it.Name # ""
\* A clean-up whose type filter is inverted.
ShouldDestroy_otherType(it) == it.Type # typ
\* cleanUpInstances: the filter of the loop over the listed instances.
ShouldDestroy(it) == it.Type = typ

\* run(), the argument check and signal.NotifyContext.
runStart ==
    /\ mainPc = "start"
    /\ IF nArg = 0
       THEN Returns(MainErr("noArgs"))
       ELSE mainPc' = "types" /\ UNCHANGED runRet
    /\ UNCHANGED <<cfgVars, typs, insts, ci, errRegexp, launched, sigDone,
                   egVars, sessVars, fileVars, backVars, histVars>>

\* validateInstanceType, the call of gomote.InstanceTypes.  With the context
\* done no process starts, the error is not an *exec.Error and is ignored,
\* and the listing is empty.
instanceTypes ==
    /\ mainPc = "types"
    /\ \E ok \in BOOLEAN, listing \in TypeListings :
          /\ SigCtxDone => (ok /\ listing = {})
          /\ IF ok
             THEN typs' = listing /\ mainPc' = "validate" /\ UNCHANGED runRet
             ELSE Returns(MainErr("typesErr")) /\ UNCHANGED typs
    /\ UNCHANGED <<cfgVars, insts, ci, errRegexp, launched, sigDone,
                   egVars, sessVars, fileVars, backVars, histVars>>

\* validateInstanceType, the search of the listing, and run()'s check of it.
validateInstanceType ==
    /\ mainPc = "validate"
    /\ IF TypeValid(typs)
       THEN /\ mainPc' = IF clean = cleanStart THEN "list" ELSE "args"
            /\ UNCHANGED runRet
       ELSE Returns(MainErr("invalidType"))
    /\ typs' = {}
    /\ UNCHANGED <<cfgVars, insts, ci, errRegexp, launched, sigDone,
                   egVars, sessVars, fileVars, backVars, histVars>>

\* cleanUpInstances, the call of gomote.List.
cleanUpList ==
    /\ mainPc = "list"
    /\ \E ok \in BOOLEAN, listing \in Listings :
          /\ SigCtxDone => ~ok
          /\ IF ok
             THEN insts' = listing /\ ci' = 1 /\ mainPc' = "clean"
                  /\ UNCHANGED runRet
             ELSE Returns(MainErr("cleanupErr")) /\ UNCHANGED <<insts, ci>>
    /\ UNCHANGED <<cfgVars, typs, errRegexp, launched, sigDone,
                   egVars, sessVars, fileVars, backVars, histVars>>

\* cleanUpInstances, one iteration of the loop over insts; insts goes out of
\* scope when the function returns nil.
cleanUpInstances ==
    /\ mainPc = "clean"
    /\ IF ci > Len(insts)
       THEN /\ mainPc' = "args"
            /\ insts' = <<>> /\ ci' = 0
            /\ UNCHANGED <<runRet, destroyCalls>>
       ELSE IF ~ShouldDestroy(insts[ci])
       THEN ci' = ci + 1 /\ UNCHANGED <<mainPc, runRet, insts, destroyCalls>>
       ELSE \E ok \in BOOLEAN :
               /\ SigCtxDone => ~ok
               /\ destroyCalls' = IF SigCtxDone THEN destroyCalls
                                  ELSE destroyCalls \cup {insts[ci].Name}
               /\ IF ok
                  THEN ci' = ci + 1 /\ UNCHANGED <<mainPc, runRet, insts>>
                  ELSE Returns(MainErr("cleanupErr")) /\ UNCHANGED <<ci, insts>>
    /\ UNCHANGED <<cfgVars, typs, errRegexp, launched, sigDone,
                   egVars, sessVars, fileVars, exitDestroy, histVars>>

\* run(), the check for a command.
checkArgs ==
    /\ mainPc = "args"
    /\ IF nArg = 1
       THEN Returns(MainErr(IF clean = cleanStart THEN "cleanOnly" ELSE "noCommand"))
       ELSE mainPc' = "regexp" /\ UNCHANGED runRet
    /\ UNCHANGED <<cfgVars, typs, insts, ci, errRegexp, launched, sigDone,
                   egVars, sessVars, fileVars, backVars, histVars>>

\* run(), regexp.Compile of -match, then errgroup.WithContext.
compileRegexp ==
    /\ mainPc = "regexp"
    /\ IF errMatch # "" /\ ~Compiles(errMatch)
       THEN Returns(MainErr("regexpErr")) /\ UNCHANGED errRegexp
       ELSE errRegexp' = errMatch /\ mainPc' = "go" /\ UNCHANGED runRet
    /\ UNCHANGED <<cfgVars, typs, insts, ci, launched, sigDone,
                   egVars, sessVars, fileVars, backVars, histVars>>

\* run(), one iteration of the loop: eg.Go starts a session.
egGo ==
    /\ mainPc = "go"
    /\ launched < instances
    /\ launched' = launched + 1
    /\ pc' = [pc EXCEPT ![launched + 1] = "create"]
    /\ UNCHANGED <<cfgVars, mainPc, runRet, typs, insts, ci, errRegexp, sigDone,
                   egVars, i, inst, err, results, ret, fileVars, backVars, histVars>>

\* A Wait that returns as soon as one goroutine has returned.
WaitDone_any == \E s \in 1..launched : pc[s] = "done"
\* What eg.Wait waits for: every goroutine started by eg.Go has returned.
WaitDone == \A s \in 1..launched : pc[s] = "done"

\* A run() that drops the error of eg.Wait.
WaitResult_dropped == NilErr
\* The value of `return eg.Wait()`: the error the group recorded.
WaitResult == egErr

\* eg.Wait returns the first error and cancels the context.
egWait ==
    /\ mainPc = "go"
    /\ launched = instances
    /\ WaitDone
    /\ Returns(WaitResult)
    /\ egCancel' = TRUE
    /\ UNCHANGED <<cfgVars, typs, insts, ci, errRegexp, launched, sigDone,
                   egErr, firstFail, sessVars, fileVars, backVars, histVars>>

\* os.Interrupt arrives while signal.NotifyContext is installed.
interrupt ==
    /\ mainPc \notin {"start", "returned", "crashed"}
    /\ ~sigDone
    /\ sigDone' = TRUE
    /\ UNCHANGED <<cfgVars, mainVars, egVars, sessVars, fileVars, backVars, histVars>>
\* ------------------------------------------------------------- retry()
\* One pass through retry's loop, entered with counter n: f was invoked and
\* failed or not.  The error of the n+1st invocation is numbered n+1; 0 is nil.
\*   "ok": return nil; "loop": goto loop; "err": return err.
\* A retry whose comparison is off by one.
retry_offByOne(n, failed, retries) ==
    IF ~failed THEN [st |-> "ok", i |-> n, err |-> 0]
    ELSE IF n + 1 <= retries THEN [st |-> "loop", i |-> n + 1, err |-> n + 1]
    ELSE [st |-> "err", i |-> n + 1, err |-> n + 1]
retry(n, failed, retries) ==
    IF ~failed THEN [st |-> "ok", i |-> n, err |-> 0]
    ELSE IF n + 1 < retries THEN [st |-> "loop", i |-> n + 1, err |-> n + 1]
    ELSE [st |-> "err", i |-> n + 1, err |-> n + 1]

\* ------------------------------------------------- the errgroup goroutines
\* errgroup's errOnce: the first non-nil error is kept.
FirstError(cur, new) == IF cur = NilErr THEN new ELSE cur

\* The goroutine of eg.Go once the closure has returned with the value of
\* `site`: a non-nil error is recorded once and cancels the context.
Finish(s, site) ==
    /\ pc' = [pc EXCEPT ![s] = "done"]
    /\ IF ErrOf(site) # "nil"
       THEN /\ egErr' = FirstError(egErr, [site |-> site, by |-> s])
            /\ egCancel' = TRUE
            /\ firstFail' = IF firstFail = 0 THEN s ELSE firstFail
       ELSE UNCHANGED egVars

\* A deferred destroy registered only after the push.
Deferred_afterPush(site) == clean = cleanExit /\ site \notin {"createFail", "pushFail"}
\* A deferred destroy that does not look at -clean.
Deferred_always(site) == site # "createFail"
\* The deferred gomote.Destroy is registered after a successful create.
Deferred(site) == clean = cleanExit /\ site # "createFail"

\* A return statement of the closure: the deferred call and the errgroup's
\* bookkeeping follow in sessionExit.
Return(s, site) ==
    /\ ret' = [ret EXCEPT ![s] = site]
    /\ pc' = [pc EXCEPT ![s] = "exit"]

\* retry(gomote.Create): one invocation of gomote.Create.
gomoteCreate(s) ==
    /\ Alive /\ pc[s] = "create"
    /\ \E ok \in BOOLEAN :
          /\ CtxDone => ~ok
          /\ LET r == retry(i[s], ~ok, deflakes) IN
             /\ inst' = [inst EXCEPT ![s] = IF ok THEN InstName(s) ELSE ""]
             /\ err' = [err EXCEPT ![s] = r.err]
             /\ CASE r.st = "ok" ->
                       /\ i' = [i EXCEPT ![s] = 0]
                       /\ pc' = [pc EXCEPT ![s] = "push"]
                       /\ UNCHANGED ret
                  [] r.st = "loop" ->
                       /\ i' = [i EXCEPT ![s] = r.i]
                       /\ UNCHANGED <<pc, ret>>
                  [] r.st = "err" ->
                       /\ i' = [i EXCEPT ![s] = 0]
                       /\ Return(s, "createFail")
    /\ UNCHANGED <<cfgVars, mainVars, sigDone, egVars, results, fileVars, backVars, histVars>>

\* retry(gomote.Push): one invocation of gomote.Push.
gomotePush(s) ==
    /\ Alive /\ pc[s] = "push"
    /\ \E ok \in BOOLEAN :
          /\ CtxDone => ~ok
          /\ LET r == retry(i[s], ~ok, deflakes) IN
             /\ err' = [err EXCEPT ![s] = r.err]
             /\ CASE r.st = "ok" ->
                       /\ i' = [i EXCEPT ![s] = 0]
                       /\ pc' = [pc EXCEPT ![s] = "run"]
                       /\ UNCHANGED ret
                  [] r.st = "loop" ->
                       /\ i' = [i EXCEPT ![s] = r.i]
                       /\ UNCHANGED <<pc, ret>>
                  [] r.st = "err" ->
                       /\ i' = [i EXCEPT ![s] = 0]
                       /\ Return(s, "pushFail")
    /\ UNCHANGED <<cfgVars, mainVars, sigDone, egVars, inst, results, fileVars, backVars, histVars>>

\* A gomote.Run that starts the command whatever the state of the context.
RunOutcomes_ignoresCtx(done, name) ==
    {[out |-> out, err |-> e] : out \in Outputs(name), e \in RunErrs}
\* What gomote.Run may return: exec.CommandContext starts no process when the
\* context is done, CombinedOutput then returns no output and ctx.Err().
RunOutcomes(done, name) ==
    IF done THEN {[out |-> {}, err |-> "other"]}
    ELSE {[out |-> out, err |-> e] : out \in Outputs(name), e \in RunErrs}

\* gomote.Run, called at the top of every iteration of the loop.
gomoteRun(s) ==
    /\ Alive /\ pc[s] = "run"
    /\ \E r \in RunOutcomes(CtxDone, inst[s]) :
          results' = [results EXCEPT ![s] = r]
    /\ pc' = [pc EXCEPT ![s] = "select"]
    /\ UNCHANGED <<cfgVars, mainVars, sigDone, egVars, i, inst, err, ret,
                   fileVars, backVars, histVars>>

\* A classification that applies the pattern even when none was given.
Classify_nilRegexp(done, res, name, re) ==
    IF done THEN "ctxDone"
    ELSE IF res.err = "nil" THEN "loop"
    ELSE IF res.err # "exit" THEN "runErr"
    ELSE IF Contains(res.out, name) THEN "lostBuilder"
    ELSE IF ~Match(re, res.out) THEN "unmatched"
    ELSE "matched"
\* A classification that applies the pattern before the lost-builder test.
Classify_matchFirst(done, res, name, re) ==
    IF done THEN "ctxDone"
    ELSE IF res.err = "nil" THEN "loop"
    ELSE IF res.err # "exit" THEN "runErr"
    ELSE IF re # "" /\ ~Match(re, res.out) THEN "unmatched"
    ELSE IF Contains(res.out, name) THEN "lostBuilder"
    ELSE "matched"
\* A classification without the select on ctx.Done().
Classify_noSelect(done, res, name, re) ==
    IF res.err = "nil" THEN "loop"
    ELSE IF res.err # "exit" THEN "runErr"
    ELSE IF Contains(res.out, name) THEN "lostBuilder"
    ELSE IF re # "" /\ ~Match(re, res.out) THEN "unmatched"
    ELSE "matched"
\* A classification that returns the error of gomote.Run before the select.
Classify_errFirst(done, res, name, re) ==
    IF res.err = "other" THEN "runErr"
    ELSE IF done THEN "ctxDone"
    ELSE IF res.err = "nil" THEN "loop"
    ELSE IF Contains(res.out, name) THEN "lostBuilder"
    ELSE IF re # "" /\ ~Match(re, res.out) THEN "unmatched"
    ELSE "matched"
\* A classification that looks for the instance name before the kind of error.
Classify_nameFirst(done, res, name, re) ==
    IF done THEN "ctxDone"
    ELSE IF res.err = "nil" THEN "loop"
    ELSE IF Contains(res.out, name) THEN "lostBuilder"
    ELSE IF res.err # "exit" THEN "runErr"
    ELSE IF re # "" /\ ~Match(re, res.out) THEN "unmatched"
    ELSE "matched"
\* A classification whose select is only reached when the command succeeded.
Classify_selectOnSuccess(done, res, name, re) ==
    IF res.err = "nil" THEN (IF done THEN "ctxDone" ELSE "loop")
    ELSE IF res.err # "exit" THEN "runErr"
    ELSE IF Contains(res.out, name) THEN "lostBuilder"
    ELSE IF re # "" /\ ~Match(re, res.out) THEN "unmatched"
    ELSE "matched"
\* The select on ctx.Done() and the tests that follow gomote.Run.
Classify(done, res, name, re) ==
    IF done THEN "ctxDone"
    ELSE IF res.err = "nil" THEN "loop"
    ELSE IF res.err # "exit" THEN "runErr"
    ELSE IF Contains(res.out, name) THEN "lostBuilder"
    ELSE IF re # "" /\ ~Match(re, res.out) THEN "unmatched"
    ELSE "matched"

\* The session acts on the result of gomote.Run.
classify(s) ==
    /\ Alive /\ pc[s] = "select"
    /\ cmdFailed' = (cmdFailed \/ (~CtxDone /\ results[s].err # "nil"))
    /\ LET v == Classify(CtxDone, results[s], inst[s], errRegexp) IN
       CASE v = "loop" ->
              /\ pc' = [pc EXCEPT ![s] = "run"]
              /\ results' = [results EXCEPT ![s] = NoResults]
              /\ UNCHANGED ret
         [] v \in {"unmatched", "matched"} ->
              /\ pc' = [pc EXCEPT ![s] = v]
              /\ UNCHANGED <<results, ret>>
         [] OTHER ->
              /\ results' = [results EXCEPT ![s] = NoResults]
              /\ Return(s, v)
    /\ UNCHANGED <<cfgVars, mainVars, sigDone, egVars, i, inst, err, fileVars, backVars>>

\* An unmatched failure: os.CreateTemp, f.Write, the log lines, continue.
\* A failed f.Write on a created file is logged and the loop goes on.  When
\* os.CreateTemp fails f is nil: f.Write returns an error and the log.Printf
\* that reports it evaluates f.Name(), which panics.
writeTemp(s) ==
    /\ Alive /\ pc[s] = "unmatched"
    /\ \E createOk \in BOOLEAN :
          IF createOk
          THEN /\ tmpFile' = [tmpFile EXCEPT ![s] = TRUE]
               /\ pc' = [pc EXCEPT ![s] = "run"]
               /\ results' = [results EXCEPT ![s] = NoResults]
          ELSE /\ pc' = [pc EXCEPT ![s] = "panic"]
               /\ UNCHANGED <<tmpFile, results>>
    /\ UNCHANGED <<cfgVars, mainVars, sigDone, egVars, i, inst, err, ret,
                   outFile, tarFile, backVars, histVars>>

\* The goroutine panics: its deferred gomote.Destroy runs if it was
\* registered, then the runtime ends the process.
sessionPanic(s) ==
    /\ Alive /\ pc[s] = "panic"
    /\ IF clean = cleanExit
       THEN \E ok \in BOOLEAN :
               exitDestroy' = [exitDestroy EXCEPT ![s] = IF ok THEN "ok" ELSE "err"]
       ELSE UNCHANGED exitDestroy
    /\ mainPc' = "crashed"
    /\ UNCHANGED <<cfgVars, runRet, typs, insts, ci, errRegexp, launched, sigDone,
                   egVars, sessVars, fileVars, destroyCalls, histVars>>

\* A matched failure: os.WriteFile of <inst>.out.
writeOut(s) ==
    /\ Alive /\ pc[s] = "matched"
    /\ \E ok \in BOOLEAN :
          IF ok
          THEN /\ outFile' = [outFile EXCEPT ![s] =
                                [written |-> TRUE, data |-> results[s].out]]
               /\ pc' = [pc EXCEPT ![s] = "tar"]
               /\ UNCHANGED <<results, ret>>
          ELSE /\ results' = [results EXCEPT ![s] = NoResults]
               /\ Return(s, "writeFail")
               /\ UNCHANGED outFile
    /\ UNCHANGED <<cfgVars, mainVars, sigDone, egVars, i, inst, err, tarFile, tmpFile,
                   backVars, histVars>>

\* A matched failure: os.Create of <inst>.tar.gz.
createTar(s) ==
    /\ Alive /\ pc[s] = "tar"
    /\ \E ok \in BOOLEAN :
          IF ok
          THEN /\ tarFile' = [tarFile EXCEPT ![s] = "empty"]
               /\ pc' = [pc EXCEPT ![s] = "get"]
               /\ UNCHANGED <<results, ret>>
          ELSE /\ results' = [results EXCEPT ![s] = NoResults]
               /\ Return(s, "archiveFail")
               /\ UNCHANGED tarFile
    /\ UNCHANGED <<cfgVars, mainVars, sigDone, egVars, i, inst, err, outFile, tmpFile,
                   backVars, histVars>>

\* A return that stops the fleet even with -keep-going.
Found_alwaysStops == "errStop"
\* The value returned once the archive is downloaded.
Found == IF keepGoing THEN "keepGoing" ELSE "errStop"

\* gomote.Get(ctx, inst, f): it returns nil after the archive of the
\* instance's working directory was written to f, or an error with f left
\* empty or partly written.  Like the other gomote calls it is given ctx and
\* fails once ctx is done.
GetOutcomes(done) ==
    {[ok |-> FALSE, tar |-> "empty"], [ok |-> FALSE, tar |-> "partial"]}
        \cup (IF done THEN {} ELSE {[ok |-> TRUE, tar |-> "complete"]})

\* A matched failure: gomote.Get into <inst>.tar.gz, then the return (the
\* deferred f.Close runs with it).
gomoteGet(s) ==
    /\ Alive /\ pc[s] = "get"
    /\ \E g \in GetOutcomes(CtxDone) :
          /\ tarFile' = [tarFile EXCEPT ![s] = g.tar]
          /\ Return(s, IF g.ok THEN Found ELSE "downloadFail")
    /\ results' = [results EXCEPT ![s] = NoResults]
    /\ UNCHANGED <<cfgVars, mainVars, sigDone, egVars, i, inst, err, outFile, tmpFile,
                   backVars, histVars>>

\* The closure returns: the deferred gomote.Destroy(context.Background(),
\* inst) runs if it was registered, its error is logged only; then the
\* errgroup records the returned value.
sessionExit(s) ==
    /\ Alive /\ pc[s] = "exit"
    /\ IF Deferred(ret[s])
       THEN \E ok \in BOOLEAN :
               exitDestroy' = [exitDestroy EXCEPT ![s] = IF ok THEN "ok" ELSE "err"]
       ELSE UNCHANGED exitDestroy
    /\ Finish(s, ret[s])
    /\ UNCHANGED <<cfgVars, mainVars, sigDone, i, inst, err, results, ret,
                   fileVars, destroyCalls, histVars>>

\* ------------------------------------------------------- the specification
MainStep ==
    \/ runStart
    \/ instanceTypes
    \/ validateInstanceType
    \/ cleanUpList
    \/ cleanUpInstances
    \/ checkArgs
    \/ compileRegexp
    \/ egGo
    \/ egWait

SessionStep(s) ==
    \/ gomoteCreate(s)
    \/ gomotePush(s)
    \/ gomoteRun(s)
    \/ classify(s)
    \/ writeTemp(s)
    \/ sessionPanic(s)
    \/ writeOut(s)
    \/ createTar(s)
    \/ gomoteGet(s)
    \/ sessionExit(s)

Next ==
    \/ MainStep
    \/ \E s \in Sessions : SessionStep(s)
    \/ interrupt

Spec == Init /\ [][Next]_vars

\* The Go scheduler runs every goroutine that can run, and every gomote
\* call and file operation returns.
FairSpec ==
    /\ Spec
    /\ WF_vars(MainStep)
    /\ \A s \in Sessions : WF_vars(SessionStep(s))
\* ------------------------------------------------------------ the claims
\* Return statements of run() itself; any other value comes from eg.Wait.
MainSites ==
    {"noArgs", "typesErr", "invalidType", "cleanupErr", "noCommand", "cleanOnly",
     "regexpErr"}
\* run() has returned the value of eg.Wait().
ViaWait == mainPc = "returned" /\ runRet.site \notin MainSites
\* How a session ended.
StoppedError(s) == pc[s] = "done" /\ ErrOf(ret[s]) = "error"
StoppedMatched(s) == pc[s] = "done" /\ ErrOf(ret[s]) = "errStop"
StoppedNoFailure(s) == pc[s] = "done" /\ ErrOf(ret[s]) = "nil"

\* C1: when run() returns from eg.Wait, exactly `instances` sessions were
\* started and every one of them has ended; once run() has returned no
\* session takes a step, so no gomote call is made and no file is written.
C1_WaitsForAllSessions ==
    /\ [](ViaWait =>
            /\ launched = instances
            /\ \A s \in Sessions : pc[s] = IF s <= instances THEN "done" ELSE "idle")
    /\ [][mainPc = "returned" => UNCHANGED <<sessVars, fileVars, backVars>>]_vars

\* C1 witness: run() has returned after two sessions ran commands and ended.
C1_Witness ==
    /\ ViaWait /\ instances = 2
    /\ ret[1] = "errStop" /\ ret[2] = "ctxDone"

\* C2 as claimed: a session that ended with a lost-builder error or with an
\* error of gomote.Run makes the result of run() an error (exit status 1),
\* whatever the other sessions returned.
C2_ErrorAlwaysWins ==
    (ViaWait /\ \E s \in Sessions : pc[s] = "done" /\ ret[s] \in {"lostBuilder", "runErr"})
        => ExitCode(runRet) = 1

\* C2 as amended: run() returns the value of the first session that returned
\* a non-nil value (nil when none did).  So an error is the result when no
\* session ended on a matched failure, and errStop is the result exactly
\* when the first non-nil value was errStop, even if a later session ended
\* with an error.
C2_FirstNonNilWins ==
    ViaWait =>
        /\ firstFail = 0 <=> \A s \in Sessions : ErrOf(ret[s]) \in {"nil"} \/ ret[s] = "none"
        /\ firstFail = 0 => runRet = NilErr
        /\ firstFail # 0 => runRet = [site |-> ret[firstFail], by |-> firstFail]
        /\ ((\E s \in Sessions : StoppedError(s)) /\ ~\E s \in Sessions : StoppedMatched(s))
              => ExitCode(runRet) = 1
        /\ ErrOf(runRet.site) = "errStop" => StoppedMatched(firstFail)

\* C2 witness: the first session ended on a matched failure, the second one
\* with an error, and run() returned errStop.
C2_Witness ==
    /\ ViaWait /\ firstFail = 1
    /\ StoppedMatched(1) /\ StoppedError(2)
    /\ runRet.site = "errStop"
\* Every started session has ended.
AllTerminal == launched = instances /\ \A s \in 1..instances : pc[s] = "done"

\* C3: with -match set and -keep-going off, once a session has found a
\* failure whose output matches the pattern (the select saw the context not
\* done, the output does not contain the instance name), the context is
\* eventually cancelled and every session eventually ends.
C3_MatchStopsTheFleet ==
    (errRegexp # "" /\ ~keepGoing /\ \E s \in Sessions : pc[s] = "matched")
        ~> (CtxDone /\ AllTerminal)

\* C4: with -match set, a session that found a failure whose output does
\* not match the pattern (and does not contain the instance name) goes on:
\* its next step is back at gomote.Run on the same instance, the process
\* keeps running, and that step neither cancels the context nor writes
\* <inst>.out or <inst>.tar.gz.
C4_UnmatchedContinues ==
    [][\A s \in Sessions :
          pc[s] = "unmatched" =>
             /\ mainPc' # "crashed"
             /\ pc'[s] \in {"unmatched", "run"}
             /\ pc'[s] = "run" =>
                   /\ inst'[s] = inst[s]
                   /\ egCancel' = egCancel /\ egErr' = egErr
                   /\ outFile'[s] = outFile[s] /\ tarFile'[s] = tarFile[s]]_vars
\* C5 as claimed: without -match, every command that exits non-zero is a
\* matched failure, whatever its output (the select saw the context not done).
C5_EveryExitIsMatched ==
    [][\A s \in Sessions :
          (/\ pc[s] = "select" /\ pc'[s] # "select"
           /\ errRegexp = "" /\ ~CtxDone
           /\ results[s].err = "exit")
          => pc'[s] = "matched"]_vars

\* C5 as amended: without -match, every command that exits non-zero with an
\* output that does not contain the instance name is a matched failure,
\* whatever else its output is; the session goes on to write <inst>.out.
C5_ExitWithoutNameIsMatched ==
    [][\A s \in Sessions :
          (/\ pc[s] = "select" /\ pc'[s] # "select"
           /\ errRegexp = "" /\ ~CtxDone
           /\ results[s].err = "exit"
           /\ ~Contains(results[s].out, inst[s]))
          => (pc'[s] = "matched" /\ ret'[s] = "none" /\ results'[s] = results[s])]_vars

\* C5 witness: without -match, a failure whose output holds "FATAL" and one
\* whose output is empty are both matched failures.
C5_Witness ==
    /\ errMatch = "" /\ instances = 2
    /\ pc[1] = "matched" /\ results[1].out = {}
    /\ pc[2] = "matched" /\ results[2].out = {"FATAL"}

\* C6 as claimed: an output that contains the instance name always ends the
\* session with the lost-builder error, whatever error gomote.Run returned
\* with it (the select saw the context not done).
C6_NameAlwaysLost ==
    [][\A s \in Sessions :
          (/\ pc[s] = "select" /\ pc'[s] # "select"
           /\ ~CtxDone
           /\ Contains(results[s].out, inst[s]))
          => ret'[s] = "lostBuilder"]_vars

\* C6 as amended: when the command exits non-zero (an *exec.ExitError) and
\* its output contains the instance name, the session returns the
\* lost-builder error, with or without -match and whether or not the output
\* matches the pattern.
C6_ExitWithNameIsLost ==
    [][\A s \in Sessions :
          (/\ pc[s] = "select" /\ pc'[s] # "select"
           /\ ~CtxDone
           /\ results[s].err = "exit"
           /\ Contains(results[s].out, inst[s]))
          => (ret'[s] = "lostBuilder" /\ pc'[s] = "exit"
              /\ ErrOf(ret'[s]) = "error")]_vars

\* C6 witness: with -match set a session ended on the lost-builder error and
\* the group recorded it.
C6_Witness ==
    \E s \in Sessions :
        /\ errRegexp = "FATAL"
        /\ pc[s] = "done" /\ ret[s] = "lostBuilder"
        /\ egErr = [site |-> "lostBuilder", by |-> s]

\* The number of invocations retry allows.
Budget == IF deflakes > 1 THEN deflakes ELSE 1

\* C7: retry invokes f at most max(retries, 1) times.  The counter i is the
\* number of failed invocations so far, so the next one is number i + 1:
\* a success returns nil at once; a failure of invocation number max(retries,
\* 1) returns the error of that invocation; any earlier failure loops.
C7_RetryBudget ==
    /\ [](\A s \in Sessions : pc[s] \in {"create", "push"} => i[s] < Budget)
    /\ [][\A s \in Sessions :
            (pc[s] \in {"create", "push"} /\ <<pc[s], i[s]>>' # <<pc[s], i[s]>>) =>
               /\ pc'[s] \in {pc[s], "exit", IF pc[s] = "create" THEN "push" ELSE "run"}
               /\ pc'[s] = pc[s] => (i'[s] = i[s] + 1 /\ i'[s] < Budget)
               /\ pc'[s] = "exit" =>
                     /\ i[s] + 1 = Budget
                     /\ err'[s] = i[s] + 1
                     /\ ret'[s] = IF pc[s] = "create" THEN "createFail" ELSE "pushFail"
               /\ pc'[s] \in {"push", "run"} /\ pc'[s] # pc[s] => err'[s] = 0
               /\ (pc[s] = "create" /\ inst'[s] # "") => pc'[s] = "push"]_vars

\* C7 witness: with a budget of two, one session gave up after its second
\* create failed while another one created its instance and pushed to it.
C7_Witness ==
    /\ deflakes = 2 /\ instances = 2
    /\ ret[1] = "createFail" /\ err[1] = 2
    /\ pc[2] = "run" /\ err[2] = 0 /\ inst[2] = "w2"

GiveUp == {"createFail", "pushFail"}

\* C8: a session whose create or push failed on every attempt returns nil
\* without having run a command or written a file; none of its steps records
\* an error, cancels the context or moves another session; and when every
\* session gave up run() returns nil.
C8_GiveUpIsNotAnError ==
    /\ [](\A s \in Sessions :
            ret[s] \in GiveUp =>
               /\ results[s] = NoResults
               /\ outFile[s] = NoFile /\ tarFile[s] = "none" /\ ~tmpFile[s])
    /\ []((ViaWait /\ instances >= 1 /\ \A s \in 1..instances : ret[s] \in GiveUp)
            => (runRet = NilErr /\ ExitCode(runRet) = 0))
    /\ [][\A s \in Sessions :
            (ret'[s] \in GiveUp /\ <<pc[s], ret[s]>>' # <<pc[s], ret[s]>>) =>
               /\ egErr' = egErr /\ egCancel' = egCancel
               /\ \A t \in Sessions \ {s} : pc'[t] = pc[t] /\ ret'[t] = ret[t]]_vars

\* C8 witness: one session has given up and ended while another one is in
\* its run loop with the context not done.
C8_Witness ==
    \E s, t \in Sessions :
        /\ pc[s] = "done" /\ ret[s] \in GiveUp
        /\ pc[t] = "select" /\ ~CtxDone

\* C9: when the requested type is not in the listing, run() returns the
\* invalid-type error as its next step, and by then nothing was listed or
\* destroyed and no session was started.
C9_InvalidTypeFailsFast ==
    /\ [][(mainPc = "validate" /\ typ \notin typs /\ mainPc' # mainPc)
            => (mainPc' = "returned" /\ runRet' = MainErr("invalidType"))]_vars
    /\ [](runRet.site = "invalidType" =>
            /\ launched = 0
            /\ \A s \in Sessions : pc[s] = "idle" /\ inst[s] = "" /\ results[s] = NoResults
            /\ destroyCalls = {} /\ insts = <<>> /\ ci = 0)

\* C9 witness: run() returned the invalid-type error although a clean-up and
\* sessions were asked for, without an interrupt.
C9_Witness ==
    /\ mainPc = "returned" /\ runRet.site = "invalidType"
    /\ clean = cleanStart /\ instances = 2 /\ nArg = 2 /\ ~sigDone

\* C10: the start-up clean-up issues gomote.Destroy only on instances whose
\* listed type is the requested type; a listed instance of another type is
\* never destroyed.
C10_CleanupOnlyTargetType ==
    /\ \A k \in 1..Len(PreInstances) :
          PreInstances[k].Name \in destroyCalls => PreInstances[k].Type = typ
    /\ \A k \in 1..Len(insts) :
          insts[k].Type # typ => insts[k].Name \notin destroyCalls
    /\ destroyCalls # {} => clean = cleanStart

\* C10 witness: the listing held an instance of the requested type and one of
\* another type; the loop is over and only the first was destroyed.
C10_Witness ==
    /\ mainPc = "clean" /\ ci > Len(insts)
    /\ \E k \in 1..Len(insts) : insts[k] = [Name |-> "p2", Type |-> "B"]
    /\ destroyCalls = {"p1"}

\* C11: with -clean=exit, a session that has ended issued gomote.Destroy
\* on its instance if and only if it created one, whatever it returned and
\* whether or not the context was done.  The destroy is issued once, in the
\* step that ends the session (no gomote call of the session follows it),
\* and its outcome changes neither the value the session returns nor what
\* the group records for it.
C11_ExitDestroysOnce ==
    /\ [](\A s \in Sessions :
            (clean = cleanExit /\ pc[s] = "done") =>
               (exitDestroy[s] # "none" <=> inst[s] # ""))
    /\ [](\A s \in Sessions :
            exitDestroy[s] # "none" =>
               /\ inst[s] = InstName(s)
               /\ pc[s] = "done" \/ mainPc = "crashed")
    /\ [][\A s \in Sessions :
            exitDestroy'[s] # exitDestroy[s] =>
               /\ exitDestroy[s] = "none"
               /\ pc[s] \in {"exit", "panic"} /\ ret'[s] = ret[s]
               /\ pc'[s] = "done" =>
                     egErr' = FirstError(egErr, IF ErrOf(ret[s]) = "nil" THEN NilErr
                                                ELSE [site |-> ret[s], by |-> s])]_vars

\* C11 witness: with -clean=exit, session 1 ended on a matched failure and
\* its destroy failed; session 2 ended on the cancellation and its destroy,
\* issued with the context done, succeeded; run() returned errStop.
C11_Witness ==
    /\ ViaWait /\ clean = cleanExit /\ runRet.site = "errStop"
    /\ ret[1] = "errStop" /\ exitDestroy[1] = "err"
    /\ ret[2] = "ctxDone" /\ exitDestroy[2] = "ok" /\ egCancel

\* C12: with -clean off or start, no session issues gomote.Destroy on the
\* instance it created, however it ends, and the start-up clean-up never
\* destroys an instance created by a session: every instance created during
\* the run is left in place when run() returns.
C12_NoDestroyUnlessExit ==
    clean # cleanExit =>
        \A s \in Sessions :
            /\ exitDestroy[s] = "none"
            /\ InstName(s) \notin destroyCalls

\* C12 witness: run() has returned after a start-up clean-up; one session
\* ended on a matched failure and the other on cancellation, both with an
\* instance, and neither instance was destroyed.
C12_Witness ==
    /\ ViaWait /\ clean = cleanStart /\ destroyCalls # {}
    /\ ret[1] = "errStop" /\ inst[1] = "w1" /\ exitDestroy[1] = "none"
    /\ ret[2] = "ctxDone" /\ inst[2] = "w2" /\ exitDestroy[2] = "none"

\* C13 as claimed: after a session handled a matched failure under
\* -keep-going, the value run() returns differs from the nil of a run in
\* which no failure was found.
C13_FleetRemembersFailure ==
    (ViaWait /\ \E s \in Sessions : ret[s] = "keepGoing") => runRet # NilErr

\* C13 as amended: under -keep-going a session that handled a matched
\* failure returns nil after writing <inst>.out and <inst>.tar.gz; its return
\* records nothing in the group and does not cancel the context; the value
\* of run() is never errStop, and it is nil unless some session returned an
\* error.
C13_KeepGoingLeavesNoTrace ==
    /\ [](\A s \in Sessions :
            ret[s] = "keepGoing" =>
               /\ keepGoing /\ ErrOf(ret[s]) = "nil"
               /\ outFile[s].written /\ tarFile[s] = "complete")
    /\ []((ViaWait /\ keepGoing) =>
            /\ ErrOf(runRet.site) # "errStop"
            /\ \A s \in Sessions : ret[s] # "errStop"
            /\ (~\E s \in Sessions : StoppedError(s)) => runRet = NilErr)
    /\ [][\A s \in Sessions :
            (ret[s] = "keepGoing" /\ pc[s] = "exit" /\ pc'[s] = "done")
               => (egErr' = egErr /\ egCancel' = egCancel)]_vars

\* C13 witness: under -keep-going both sessions handled a matched failure
\* and run() returned nil.
C13_Witness ==
    /\ ViaWait /\ keepGoing /\ runRet = NilErr
    /\ ret[1] = "keepGoing" /\ ret[2] = "keepGoing"
    /\ outFile[1].written /\ outFile[2].written

\* Return statements after a failure to write <inst>.out (os.WriteFile), to
\* create <inst>.tar.gz (os.Create) or to download it (gomote.Get).
ArtifactFail == {"writeFail", "archiveFail", "downloadFail"}

\* C14 as claimed: a failure to write <inst>.out or to create or download
\* <inst>.tar.gz is only logged: when no session lost its builder or got an
\* error from gomote.Run, run() does not return an error.
C14_ArtifactFailureOnlyLogged ==
    (/\ ViaWait
     /\ \E s \in Sessions : ret[s] \in ArtifactFail
     /\ \A s \in Sessions : ret[s] \notin {"runErr", "lostBuilder"})
        => ExitCode(runRet) = 0

\* C14 as amended: a failure to write <inst>.out or to create or download
\* <inst>.tar.gz ends the session with an error.  When the session returns,
\* the group records the error if it is the first non-nil value and the
\* context is cancelled; if it is the first, run() returns it and the exit
\* status is 1.
C14_ArtifactFailureIsAnError ==
    /\ [](\A s \in Sessions :
            (pc[s] = "done" /\ ret[s] \in ArtifactFail) =>
               /\ StoppedError(s)
               /\ egCancel /\ egErr # NilErr /\ firstFail # 0)
    /\ []((ViaWait /\ firstFail # 0) =>
            (ret[firstFail] \in ArtifactFail =>
               /\ runRet = [site |-> ret[firstFail], by |-> firstFail]
               /\ ExitCode(runRet) = 1))
    /\ [][\A s \in Sessions :
            (pc[s] \in {"matched", "tar", "get"} /\ pc'[s] = "exit") =>
               ret'[s] = CASE pc[s] = "matched" -> "writeFail"
                           [] pc[s] = "tar" -> "archiveFail"
                           [] tarFile'[s] = "complete" -> Found
                           [] OTHER -> "downloadFail"]_vars

\* C14 witness: the first session wrote <inst>.out, failed to download the
\* archive and returned first; run() returned its error.
C14_Witness ==
    /\ ViaWait /\ firstFail = 1
    /\ ret[1] = "downloadFail" /\ outFile[1].written
    /\ runRet.site = "downloadFail" /\ ExitCode(runRet) = 1

\* C15: when run() returns errStop (exit status 0 on a matched failure), the
\* session that returned it has ended and left both files: <inst>.out,
\* holding the output of its failing run (an output that matches the
\* pattern, if one was given, and does not name the instance), and
\* <inst>.tar.gz, holding the downloaded archive.  <inst>.out is written
\* only by a session at its matched failure, with the output of that run.
C15_StopMeansArtifacts ==
    /\ []((mainPc = "returned" /\ ErrOf(runRet.site) = "errStop") =>
            /\ runRet.by \in 1..instances
            /\ LET s == runRet.by IN
                  /\ pc[s] = "done" /\ inst[s] = InstName(s)
                  /\ outFile[s].written
                  /\ errRegexp # "" => Match(errRegexp, outFile[s].data)
                  /\ ~Contains(outFile[s].data, inst[s])
                  /\ tarFile[s] = "complete")
    /\ [][\A s \in Sessions :
            outFile'[s] # outFile[s] =>
               /\ pc[s] = "matched" /\ results[s].err = "exit"
               /\ outFile'[s] = [written |-> TRUE, data |-> results[s].out]]_vars

\* C15 witness: run() returned the errStop of session 2, whose output held
\* the pattern, while session 1 failed to download its archive after it.
C15_Witness ==
    /\ mainPc = "returned" /\ runRet = [site |-> "errStop", by |-> 2]
    /\ outFile[2] = [written |-> TRUE, data |-> {"FATAL"}] /\ tarFile[2] = "complete"
    /\ ret[1] = "downloadFail" /\ tarFile[1] = "partial"

\* No <inst>.out, <inst>.tar.gz or temp file was written.
NoArtifacts ==
    \A s \in Sessions : outFile[s] = NoFile /\ tarFile[s] = "none" /\ ~tmpFile[s]

\* C16: when no session found a failed command with the context not done
\* (every command exited 0, or was cut short by the interrupt) and
\* os.Interrupt arrives once run() has reached the launch of the sessions,
\* then every session ends, each returns nil, run() returns nil, and no
\* <inst>.out, <inst>.tar.gz or temp file is written.
C16_InterruptEndsCleanly ==
    /\ [](~cmdFailed =>
            /\ NoArtifacts
            /\ \A s \in Sessions : ret[s] \in {"none", "createFail", "pushFail", "ctxDone"})
    /\ []((ViaWait /\ sigDone /\ ~cmdFailed) =>
            /\ runRet = NilErr /\ ExitCode(runRet) = 0
            /\ \A s \in 1..instances : StoppedNoFailure(s))
    /\ (sigDone /\ mainPc = "go" /\ ~cmdFailed)
          ~> (ViaWait /\ AllTerminal /\ runRet = NilErr /\ NoArtifacts)

\* C16 witness: the interrupt came while both sessions ran commands; one
\* ended at the select after gomote.Run, and run() returned nil.
C16_Witness ==
    /\ ViaWait /\ sigDone /\ ~cmdFailed /\ instances = 2
    /\ ret[1] = "ctxDone" /\ ret[2] = "ctxDone" /\ runRet = NilErr

\* C17 as claimed: once the context is done no session calls gomote.Run
\* again.
C17_NoExecuteAfterCancel ==
    [][\A s \in Sessions :
          CtxDone => ~(pc[s] = "run" /\ pc'[s] = "select")]_vars

\* C17 as amended: the context is tested only after gomote.Run returns.  A
\* session at the top of its loop when the context is done calls gomote.Run
\* once more; that call starts no command (no output, an error that is not
\* an exit status), and the select that follows ends the session with nil.
C17_NoCommandStartsAfterCancel ==
    /\ [][\A s \in Sessions :
            (CtxDone /\ pc[s] = "run" /\ pc'[s] # "run") =>
               /\ pc'[s] = "select"
               /\ results'[s] = [out |-> {}, err |-> "other"]]_vars
    /\ [][\A s \in Sessions :
            (CtxDone /\ pc[s] = "run" /\ pc'[s] # "run") =>
               Classify(CtxDone', results'[s], inst'[s], errRegexp') = "ctxDone"]_vars

\* C17 witness: session 1 ended on a matched failure and cancelled the
\* context; session 2, back at the top of its loop after a temp file, has
\* called gomote.Run with the context done.
C17_Witness ==
    /\ StoppedMatched(1) /\ egCancel /\ ~sigDone
    /\ pc[2] = "select" /\ tmpFile[2]
    /\ results[2] = [out |-> {}, err |-> "other"]

\* C18: when the context is done at the select after gomote.Run, the session
\* returns nil whatever gomote.Run returned (an error, an output with the
\* instance name, a failure that matches the pattern): that step writes no
\* file, and the return records no error in the group.
C18_CancelSkipsClassification ==
    /\ [][\A s \in Sessions :
            (pc[s] = "select" /\ CtxDone /\ pc'[s] # "select") =>
               /\ pc'[s] = "exit" /\ ret'[s] = "ctxDone"
               /\ ErrOf(ret'[s]) = "nil"
               /\ UNCHANGED <<fileVars, egVars>>]_vars
    /\ [][\A s \in Sessions :
            (ret[s] = "ctxDone" /\ pc[s] = "exit" /\ pc'[s] = "done") =>
               UNCHANGED <<fileVars, egVars>>]_vars
    /\ [](\A s \in Sessions :
            ret[s] = "ctxDone" =>
               outFile[s] = NoFile /\ tarFile[s] = "none")

\* C18 witness: with -match set, session 1 ended on a matched failure and
\* session 2 ended at the select with nil, without a file.
C18_Witness ==
    /\ errRegexp = "FATAL" /\ egErr = [site |-> "errStop", by |-> 1]
    /\ pc[2] = "done" /\ ret[2] = "ctxDone"
    /\ outFile[2] = NoFile /\ tarFile[2] = "none" /\ ~tmpFile[2]

\* C19: on an unmatched failure, a failure to create the temp file or to
\* write to it is not fatal: no session panics and the process keeps running.
C19_TempFailureNotFatal ==
    /\ mainPc # "crashed"
    /\ \A s \in Sessions : pc[s] # "panic"

\* C20: with -clean=start, when the clean-up loop ends every listed instance
\* of the requested type has had a successful gomote.Destroy; the loop ends
\* before any session is started; and when gomote.List or a gomote.Destroy
\* fails run() returns an error as that step, with no session started.
C20_CleanupBeforeLaunch ==
    /\ [][(mainPc = "clean" /\ mainPc' = "args") =>
            \A k \in 1..Len(insts) :
               insts[k].Type = typ => insts[k].Name \in destroyCalls]_vars
    /\ []((mainPc \in {"list", "clean"} \/ runRet.site = "cleanupErr") =>
            /\ launched = 0
            /\ \A s \in Sessions : pc[s] = "idle" /\ inst[s] = "")
    /\ []((clean = cleanStart /\ launched > 0) => runRet.site # "cleanupErr")
    /\ [](runRet.site = "cleanupErr" => (clean = cleanStart /\ ExitCode(runRet) = 1))
    /\ [][(mainPc = "clean" /\ ci <= Len(insts) /\ ci' = ci /\ mainPc' # mainPc)
            => (mainPc' = "returned" /\ runRet' = MainErr("cleanupErr"))]_vars

\* C20 witness: two listed instances of the requested type were destroyed
\* and the first session is about to create its instance.
C20_Witness ==
    /\ clean = cleanStart /\ destroyCalls = {"p1", "p3"}
    /\ launched = 1 /\ pc[1] = "create"

\* Every session that was started has ended.
LaunchedDone == \A s \in 1..launched : pc[s] = "done"

\* C21: once the context is done, by os.Interrupt or by a session's error or
\* errStop, every session that was started eventually ends, wherever it is
\* (create, push under retry, the run loop), and run() eventually returns.
C21_CancelEndsTheRun ==
    (CtxDone /\ mainPc # "start") ~> (mainPc = "returned" /\ LaunchedDone)

\* C22: when gomote.Run returns an error that is not an *exec.ExitError and
\* the select finds the context not done, the session returns that error
\* whatever the output is: the output is searched neither for the instance
\* name nor for the pattern and no file is written; when the session has
\* ended the error is recorded in the group and the context is cancelled.
C22_RunErrorIsFatal ==
    /\ [][\A s \in Sessions :
            (/\ pc[s] = "select" /\ pc'[s] # "select"
             /\ ~CtxDone /\ results[s].err = "other")
            => (/\ pc'[s] = "exit" /\ ret'[s] = "runErr"
                /\ ErrOf(ret'[s]) = "error"
                /\ UNCHANGED fileVars)]_vars
    /\ [][\A s \in Sessions :
            (ret[s] = "runErr" /\ pc[s] = "exit" /\ pc'[s] = "done")
            => (/\ egCancel'
                /\ egErr' = FirstError(egErr, [site |-> "runErr", by |-> s])
                /\ UNCHANGED fileVars)]_vars
    /\ [](\A s \in Sessions :
            ret[s] = "runErr" =>
               outFile[s] = NoFile /\ tarFile[s] = "none")

\* C22 witness: with -match set, the only session ended on an error of
\* gomote.Run with no interrupt; the group recorded it, the context is
\* cancelled and no file was written.
C22_Witness ==
    /\ errRegexp = "FATAL" /\ instances = 1 /\ ~sigDone
    /\ pc[1] = "done" /\ ret[1] = "runErr"
    /\ egErr = [site |-> "runErr", by |-> 1] /\ egCancel
    /\ NoArtifacts

\* C23: under -keep-going, the return of a session that handled a matched
\* failure (both files written) moves no other session, records nothing in
\* the group and does not cancel the context; as long as only such returns
\* and give-ups happened, the context is done only by os.Interrupt or the
\* return of run(); and another session whose command then fails with a
\* matching output goes on to its own matched failure.
C23_KeepGoingEndsOneSession ==
    /\ [][\A s \in Sessions :
            (ret[s] = "keepGoing" /\ pc[s] = "exit" /\ pc'[s] = "done") =>
               /\ outFile[s].written /\ tarFile[s] = "complete"
               /\ UNCHANGED egVars
               /\ \A t \in Sessions \ {s} :
                     pc'[t] = pc[t] /\ ret'[t] = ret[t] /\ results'[t] = results[t]]_vars
    /\ []((/\ mainPc = "go" /\ ~sigDone
           /\ \A s \in Sessions : ret[s] \in {"none", "keepGoing", "createFail", "pushFail"})
            => ~CtxDone)
    /\ [][\A s, t \in Sessions :
            (/\ s # t /\ pc[s] = "done" /\ ret[s] = "keepGoing" /\ ~CtxDone
             /\ pc[t] = "select" /\ pc'[t] # "select"
             /\ results[t].err = "exit"
             /\ ~Contains(results[t].out, inst[t])
             /\ errRegexp # "" => Match(errRegexp, results[t].out))
            => pc'[t] = "matched"]_vars

\* C23 witness: under -keep-going session 1 has ended after its matched
\* failure; the context is not done and session 2 is at its own matched
\* failure, found by a command that returned after session 1 had ended.
C23_Witness ==
    /\ keepGoing /\ pc[1] = "done" /\ ret[1] = "keepGoing"
    /\ ~CtxDone /\ egErr = NilErr
    /\ pc[2] = "tar" /\ outFile[2].written

\* C24 as claimed: without -keep-going at most one <inst>.out is written,
\* and no session that wrote <inst>.out has its download of <inst>.tar.gz
\* still ahead when another session's return cancels the context.
C24_OneMatchedSession ==
    ~keepGoing =>
        /\ \A s, t \in Sessions :
              (outFile[s].written /\ outFile[t].written) => s = t
        /\ \A s \in Sessions :
              ~(outFile[s].written /\ pc[s] \in {"tar", "get"} /\ egCancel)

\* C24 as amended: a session starts on a matched failure only when its
\* select found the context not done, so several sessions can do so before
\* the first of them returns.  Without -keep-going every session that wrote
\* <inst>.out and ended returned errStop with the archive downloaded, or an
\* error with the archive not downloaded; and when run() returns after an
\* <inst>.out was written its value is not nil: it is the value of the first
\* session that returned one.
C24_MatchedSessionsAccounted ==
    /\ [][\A s \in Sessions :
            (pc[s] = "select" /\ pc'[s] = "matched") => ~CtxDone]_vars
    /\ [](~keepGoing =>
            \A s \in Sessions :
               (outFile[s].written /\ pc[s] = "done") =>
                  \/ ret[s] = "errStop" /\ tarFile[s] = "complete"
                  \/ ret[s] \in {"archiveFail", "downloadFail"}
                        /\ tarFile[s] # "complete" /\ StoppedError(s))
    /\ []((ViaWait /\ ~keepGoing /\ \E s \in Sessions : outFile[s].written) =>
            /\ runRet # NilErr /\ firstFail # 0
            /\ runRet = [site |-> ret[firstFail], by |-> firstFail])

\* C24 witness: without -keep-going both sessions wrote <inst>.out; the
\* first returned errStop, the download of the second failed with the
\* context done, and run() returned errStop.
C24_Witness ==
    /\ ViaWait /\ ~keepGoing /\ ~sigDone
    /\ outFile[1].written /\ outFile[2].written
    /\ ret[1] = "errStop" /\ ret[2] = "downloadFail"
    /\ runRet = [site |-> "errStop", by |-> 1]

\* C25 as claimed: when run() returns the invalid-type error or the error of
\* regexp.Compile, no gomote.Destroy was issued, by the start-up clean-up or
\* by a session, and no session was started.
C25_ValidationChangesNothing ==
    runRet.site \in {"invalidType", "regexpErr"} =>
        /\ destroyCalls = {}
        /\ launched = 0

\* C25 as amended: a pattern that does not compile makes run() return the
\* compile error as its next step, before any session is started, so no
\* create and no session's destroy was issued; but regexp.Compile comes
\* after the start-up clean-up, so with -clean=start the listed instances of
\* the requested type were already destroyed.  Only the invalid-type error
\* is returned with nothing destroyed.
C25_ValidationBeforeSessions ==
    /\ [][(mainPc = "regexp" /\ errMatch = "(" /\ mainPc' # mainPc)
            => (mainPc' = "returned" /\ runRet' = MainErr("regexpErr"))]_vars
    /\ [](runRet.site \in {"invalidType", "regexpErr"} =>
            /\ ExitCode(runRet) = 1
            /\ launched = 0
            /\ \A s \in Sessions :
                  pc[s] = "idle" /\ inst[s] = "" /\ exitDestroy[s] = "none")
    /\ [](runRet.site = "regexpErr" => (clean # cleanStart => destroyCalls = {}))
    /\ [](runRet.site = "invalidType" => destroyCalls = {})

\* C25 witness: with -clean=start and a pattern that does not compile,
\* run() returned the compile error after two instances were destroyed.
C25_Witness ==
    /\ mainPc = "returned" /\ runRet.site = "regexpErr"
    /\ clean = cleanStart /\ destroyCalls = {"p1", "p3"}
====
